---- MODULE Spec2Model ----
(***************************************************************************)
(* Square layout under the non-interactive default rules (package shares): *)
(* NextAlignedPowerOfTwo, MsgSharesUsedNIDefaults, FitsInSquare and        *)
(* SplitMessagesUsingNIDefaults.  The pure functions are operators that    *)
(* compute what the Go code computes; a Go panic (integer division by      *)
(* zero) is an explicit outcome.  The splitter's loop is a sequence of     *)
(* steps over its local state (cursor, indexes, share buffer).             *)
(***************************************************************************)
EXTENDS Integers, Sequences, FiniteSets, TLC

\* ---------------------------------------------------------------- bounds
MaxK == 4          \* largest square size drawn
MaxCursor == 21    \* largest initial cursor drawn (row > k needs 20 at k = 4)
MaxLen == 5        \* largest entry of a message list / largest msgLen
MaxMsgs == 3       \* longest message list drawn
ByteStep == 200    \* a message entry n stands for a payload of n * ByteStep bytes

\* Go's uint32(x) conversion of a non-negative int: x mod 2^32, computed on
\* the two 16-bit halves
Uint32(x) == (((x \div 65536) % 65536) * 65536) + (x % 65536)

RECURSIVE IsPowerOfTwo(_)
IsPowerOfTwo(n) == IF n = 1 THEN TRUE
                   ELSE IF n < 1 \/ n % 2 # 0 THEN FALSE
                   ELSE IsPowerOfTwo(n \div 2)

\* square sizes satisfying the documented precondition "k is a power of two"
SquareSizes == {n \in 1..MaxK : IsPowerOfTwo(n)}

\* all message lists of at most MaxMsgs entries
MsgLists == UNION {[1..n -> 0..MaxLen] : n \in 0..MaxMsgs}

\* ------------------------------------------------------- pure functions

\* nextPowerOfTwo: k := 1; for k < v { k = k << 1 }; return k
RECURSIVE nextPowerOfTwoLoop(_, _)
nextPowerOfTwoLoop(p, v) == IF p < v THEN nextPowerOfTwoLoop(2 * p, v) ELSE p

nextPowerOfTwo(v) == nextPowerOfTwoLoop(1, v)

nextLowestPowerOfTwo(v) ==
    LET c == nextPowerOfTwo(v)
    IN  IF c = v THEN c ELSE c \div 2

\* roundUpBy evaluates cursor % v unless cursor == 0: v == 0 panics
roundUpByPanics(cursor, v) == cursor # 0 /\ v = 0

\* mutation: rounds down to the interval below
roundUpBy_Down(cursor, v) ==
    IF cursor = 0 THEN cursor
    ELSE IF cursor % v = 0 THEN cursor
    ELSE (cursor \div v) * v

\* mutation: no rounding at all
roundUpBy_NoRound(cursor, v) == cursor

roundUpBy(cursor, v) ==
    IF cursor = 0 THEN cursor
    ELSE IF cursor % v = 0 THEN cursor
    ELSE ((cursor \div v) + 1) * v

\* result of NextAlignedPowerOfTwo: (start, fitsWhole) or a panic
Aligned(s, f) == [start |-> s, fits |-> f, panic |-> FALSE]
AlignPanic == [start |-> 0, fits |-> FALSE, panic |-> TRUE]

\* mutation: the default case reports that the message fits
NextAlignedPowerOfTwo_Fits(cursor, msgLen, k) ==
    IF cursor = 0 \/ cursor % k = 0 THEN Aligned(cursor, TRUE)
    ELSE LET nextLowest == nextLowestPowerOfTwo(msgLen)
             endOfCurrentRow == ((cursor \div k) + 1) * k
         IN  IF roundUpByPanics(cursor, nextLowest) THEN AlignPanic
             ELSE LET c == roundUpBy(cursor, nextLowest)
                  IN  IF c + msgLen <= endOfCurrentRow THEN Aligned(c, TRUE)
                      ELSE IF c + nextLowest <= endOfCurrentRow THEN Aligned(c, FALSE)
                      ELSE Aligned(endOfCurrentRow, TRUE)

\* mutation: the default case returns the rounded cursor, not the row end
NextAlignedPowerOfTwo_Rounded(cursor, msgLen, k) ==
    IF cursor = 0 \/ cursor % k = 0 THEN Aligned(cursor, TRUE)
    ELSE LET nextLowest == nextLowestPowerOfTwo(msgLen)
             endOfCurrentRow == ((cursor \div k) + 1) * k
         IN  IF roundUpByPanics(cursor, nextLowest) THEN AlignPanic
             ELSE LET c == roundUpBy(cursor, nextLowest)
                  IN  IF c + msgLen <= endOfCurrentRow THEN Aligned(c, TRUE)
                      ELSE IF c + nextLowest <= endOfCurrentRow THEN Aligned(c, FALSE)
                      ELSE Aligned(c, FALSE)

NextAlignedPowerOfTwo(cursor, msgLen, k) ==
    IF cursor = 0 \/ cursor % k = 0 THEN Aligned(cursor, TRUE)
    ELSE LET nextLowest == nextLowestPowerOfTwo(msgLen)
             endOfCurrentRow == ((cursor \div k) + 1) * k
         IN  IF roundUpByPanics(cursor, nextLowest) THEN AlignPanic
             ELSE LET c == roundUpBy(cursor, nextLowest)
                  IN  IF c + msgLen <= endOfCurrentRow THEN Aligned(c, TRUE)
                      ELSE IF c + nextLowest <= endOfCurrentRow THEN Aligned(c, FALSE)
                      ELSE Aligned(endOfCurrentRow, FALSE)

\* mutation: the cursor is not advanced past the message
RECURSIVE PackLoop_NoAdvance(_, _, _, _, _)
PackLoop_NoAdvance(cur, k, lens, n, idx) ==
    IF n > Len(lens) THEN [cursor |-> cur, indexes |-> idx, panic |-> FALSE]
    ELSE LET r == NextAlignedPowerOfTwo(cur, lens[n], k)
         IN  IF r.panic THEN [cursor |-> cur, indexes |-> idx, panic |-> TRUE]
             ELSE PackLoop_NoAdvance(r.start, k, lens, n + 1,
                                     Append(idx, Uint32(r.start)))

\* the loop of MsgSharesUsedNIDefaults from message n on; idx are the indexes
\* recorded so far

RECURSIVE PackLoop(_, _, _, _, _)
PackLoop(cur, k, lens, n, idx) ==
    IF n > Len(lens) THEN [cursor |-> cur, indexes |-> idx, panic |-> FALSE]
    ELSE LET r == NextAlignedPowerOfTwo(cur, lens[n], k)
         IN  IF r.panic THEN [cursor |-> cur, indexes |-> idx, panic |-> TRUE]
             ELSE PackLoop(r.start + lens[n], k, lens, n + 1,
                           Append(idx, Uint32(r.start)))

\* mutation: returns the final cursor instead of cursor - start
MsgSharesUsedNIDefaults_NoStart(cursor, origSquareSize, msgShareLens) ==
    LET r == PackLoop(cursor, origSquareSize, msgShareLens, 1, << >>)
    IN  [sharesUsed |-> r.cursor, indexes |-> r.indexes, panic |-> r.panic]

\* (sharesUsed, indexes) or a panic
MsgSharesUsedNIDefaults(cursor, origSquareSize, msgShareLens) ==
    LET r == PackLoop(cursor, origSquareSize, msgShareLens, 1, << >>)
    IN  [sharesUsed |-> r.cursor - cursor, indexes |-> r.indexes,
         panic |-> r.panic]

\* FitsInSquare: [b |-> result, panic |-> a panic of the packer]
FitsInSquare(cursor, origSquareSize, msgShareLens) ==
    IF Len(msgShareLens) = 0 /\ cursor \div origSquareSize <= origSquareSize
    THEN [b |-> TRUE, panic |-> FALSE]
    ELSE LET r == MsgSharesUsedNIDefaults(cursor, origSquareSize, msgShareLens)
         IN  [b |-> ~r.panic /\ cursor + r.sharesUsed <= origSquareSize * origSquareSize,
              panic |-> r.panic]

\* ---- share sizing (pkg shares, not among the source files) ----
MsgShareSize == 248      \* payload capacity of one message share

\* length of the varint length prefix written before the payload
DelimLen(size) == IF size < 128 THEN 1 ELSE IF size < 16384 THEN 2 ELSE 3

\* MsgSharesUsed: ceil((size + length prefix) / payload capacity)
MsgSharesUsed(msgSize) ==
    LET adjusted == msgSize + DelimLen(msgSize)
    IN  IF adjusted % MsgShareSize # 0
        THEN adjusted \div MsgShareSize + 1
        ELSE adjusted \div MsgShareSize

\* len(msg.Data) of the message drawn as entry n
DataLen(n) == n * ByteStep

\* mutation: the overflow test is off by one row
RowOverflow_Late(row, origSquareSize) == row > origSquareSize + 1

\* the split loop's overflow test: row > origSquareSize
RowOverflow(row, origSquareSize) == row > origSquareSize

\* -------------------------------------------------------- state machine
VARIABLES
    pc,       \* "idle", "split" (inside the split loop), "done", "panic"
    fn,       \* the function called
    cursor,   \* the cursor argument; the split loop reassigns it
    start,    \* the cursor the function is called with
    k,        \* the square size argument
    msgs,     \* the message list argument: share lengths for the packer and
              \* FitsInSquare, payload sizes (in ByteStep units) for the splitter
    msgLen,   \* msgLen argument of NextAlignedPowerOfTwo
    i,        \* 1-based position of the split loop in msgs
    indexes,  \* the splitter's indexes slice
    shares,   \* the splitter's share buffer: "pad" and "msg" shares in order
    ret       \* the returned values

vars == <<pc, fn, cursor, start, k, msgs, msgLen, i, indexes, shares, ret>>

NoRet == [start |-> 0, fits |-> FALSE, sharesUsed |-> 0, indexes |-> << >>,
          rawShares |-> << >>, b |-> FALSE, err |-> FALSE]

Init ==
    /\ pc = "idle"
    /\ fn = "none"
    /\ cursor \in 0..MaxCursor
    /\ start = cursor
    /\ k \in SquareSizes
    /\ msgs \in MsgLists
    /\ msgLen = 0
    /\ i = 0
    /\ indexes = << >>
    /\ shares = << >>
    /\ ret = NoRet

\* n copies of share kind s appended to buf
RECURSIVE WriteShares(_, _, _)
WriteShares(buf, s, n) == IF n <= 0 THEN buf ELSE WriteShares(Append(buf, s), s, n - 1)

CallNextAlignedPowerOfTwo ==
    /\ pc = "idle"
    /\ \E m \in 0..MaxLen :
        LET r == NextAlignedPowerOfTwo(cursor, m, k)
        IN  /\ msgLen' = m
            /\ pc' = IF r.panic THEN "panic" ELSE "done"
            /\ ret' = [NoRet EXCEPT !.start = r.start, !.fits = r.fits]
    /\ fn' = "NextAlignedPowerOfTwo"
    /\ UNCHANGED <<cursor, start, k, msgs, i, indexes, shares>>

CallMsgSharesUsedNIDefaults ==
    /\ pc = "idle"
    /\ LET r == MsgSharesUsedNIDefaults(cursor, k, msgs)
       IN  /\ pc' = IF r.panic THEN "panic" ELSE "done"
           /\ ret' = IF r.panic THEN NoRet
                     ELSE [NoRet EXCEPT !.sharesUsed = r.sharesUsed,
                                        !.indexes = r.indexes]
    /\ fn' = "MsgSharesUsedNIDefaults"
    /\ UNCHANGED <<cursor, start, k, msgs, msgLen, i, indexes, shares>>

CallFitsInSquare ==
    /\ pc = "idle"
    /\ LET r == FitsInSquare(cursor, k, msgs)
       IN  /\ pc' = IF r.panic THEN "panic" ELSE "done"
           /\ ret' = [NoRet EXCEPT !.b = r.b]
    /\ fn' = "FitsInSquare"
    /\ UNCHANGED <<cursor, start, k, msgs, msgLen, i, indexes, shares>>

\* indexes := []uint32{uint32(cursor)}; splitter := NewMessageShareSplitter()
CallSplitMessagesUsingNIDefaults ==
    /\ pc = "idle"
    /\ pc' = "split"
    /\ fn' = "SplitMessagesUsingNIDefaults"
    /\ i' = 1
    /\ indexes' = <<Uint32(cursor)>>
    /\ shares' = << >>
    /\ UNCHANGED <<cursor, start, k, msgs, msgLen, ret>>

\* loop body, row > origSquareSize: return nil, nil, error
SplitOverflow ==
    /\ pc = "split"
    /\ i <= Len(msgs)
    /\ RowOverflow(cursor \div k, k)
    /\ pc' = "done"
    /\ ret' = [NoRet EXCEPT !.err = TRUE]
    /\ UNCHANGED <<fn, cursor, start, k, msgs, msgLen, i, indexes, shares>>

\* loop body for one message
SplitMessage ==
    /\ pc = "split"
    /\ i <= Len(msgs)
    /\ ~RowOverflow(cursor \div k, k)
    /\ LET msgShares == MsgSharesUsed(DataLen(msgs[i]))
           r == NextAlignedPowerOfTwo(cursor, msgShares, k)
       IN  IF r.panic
           THEN /\ pc' = "panic"
                /\ UNCHANGED <<cursor, i, indexes, shares>>
           ELSE /\ pc' = "split"
                /\ shares' = WriteShares(WriteShares(shares, "pad", r.start - cursor),
                                         "msg", msgShares)
                /\ indexes' = Append(indexes, Uint32(r.start))
                /\ cursor' = r.start + msgShares
                /\ i' = i + 1
    /\ UNCHANGED <<fn, start, k, msgs, msgLen, ret>>

\* return splitter.Export().RawShares(), indexes, nil
SplitReturn ==
    /\ pc = "split"
    /\ i > Len(msgs)
    /\ pc' = "done"
    /\ ret' = [NoRet EXCEPT !.rawShares = shares, !.indexes = indexes]
    /\ UNCHANGED <<fn, cursor, start, k, msgs, msgLen, i, indexes, shares>>

Next ==
    \/ CallNextAlignedPowerOfTwo
    \/ CallMsgSharesUsedNIDefaults
    \/ CallFitsInSquare
    \/ CallSplitMessagesUsingNIDefaults
    \/ SplitOverflow
    \/ SplitMessage
    \/ SplitReturn

Spec == Init /\ [][Next]_vars

TypeOK ==
    /\ pc \in {"idle", "split", "done", "panic"}
    /\ cursor \in Nat
    /\ start \in Nat
    /\ k \in SquareSizes

\* ------------------------------------------------------------ properties
Min(a, b) == IF a <= b THEN a ELSE b

EndOfRow(c, sq) == ((c \div sq) + 1) * sq

\* share counts of a message list given as payload sizes
ShareLens(ms) == [n \in 1..Len(ms) |-> MsgSharesUsed(DataLen(ms[n]))]

AlignDone == fn = "NextAlignedPowerOfTwo" /\ pc = "done"
PackDone == fn = "MsgSharesUsedNIDefaults" /\ pc = "done"
FitsDone == fn = "FitsInSquare" /\ pc = "done"
SplitDone == fn = "SplitMessagesUsingNIDefaults" /\ pc = "done"

\* C1: a split that returns no error returns the input cursor followed by
\* exactly the indexes the packer computes for the messages' share counts,
\* and the number of shares it emits is the final cursor minus the initial
\* cursor, which is the packer's total.
C1_SplitterAgreesWithPacker ==
    (SplitDone /\ ~ret.err) =>
        LET p == MsgSharesUsedNIDefaults(start, k, ShareLens(msgs))
        IN  /\ ~p.panic
            /\ Len(ret.indexes) = Len(msgs) + 1
            /\ ret.indexes[1] = start
            /\ Tail(ret.indexes) = p.indexes
            /\ Len(ret.rawShares) = cursor - start
            /\ cursor - start = p.sharesUsed

C1_Witness ==
    /\ SplitDone /\ ~ret.err
    /\ Len(msgs) = 3
    /\ start > 0
    /\ \E n \in 1..Len(ret.rawShares) : ret.rawShares[n] = "pad"
    /\ \E n \in 1..3 : MsgSharesUsed(DataLen(msgs[n])) > k

\* C2: the packer's indexes are non-decreasing and each is at least the
\* previous index plus the previous message's share count.
C2_PackerIndexesMonotone ==
    PackDone =>
        /\ Len(ret.indexes) = Len(msgs)
        /\ \A n \in 1..(Len(msgs) - 1) :
              /\ ret.indexes[n + 1] >= ret.indexes[n]
              /\ ret.indexes[n + 1] >= ret.indexes[n] + msgs[n]

C2_Witness ==
    /\ PackDone
    /\ Len(msgs) = 3
    /\ ret.indexes[2] > ret.indexes[1] + msgs[1]
    /\ ret.indexes[3] = ret.indexes[2] + msgs[2]
    /\ msgs[2] > 0

\* C3 as stated: whenever fitsWhole is true the start is a multiple of
\* nextLowestPowerOfTwo(msgLen), the row-start shortcut and messages longer
\* than k included.  (msgLen = 0, where that modulus is undefined, is not
\* held against the statement.)
C3_Original ==
    (AlignDone /\ ret.fits) =>
        LET p == nextLowestPowerOfTwo(msgLen)
        IN  p = 0 \/ ret.start % p = 0

\* C3 amended: whenever fitsWhole is true and msgLen >= 1, the start is a
\* multiple of the smaller of nextLowestPowerOfTwo(msgLen) and k.
C3_AlignedToMessageOrSquare ==
    (AlignDone /\ ret.fits /\ msgLen >= 1) =>
        ret.start % Min(nextLowestPowerOfTwo(msgLen), k) = 0

C3_Witness ==
    /\ AlignDone /\ ret.fits
    /\ cursor % k # 0
    /\ ret.start > cursor
    /\ nextLowestPowerOfTwo(msgLen) = 2

\* C4: NextAlignedPowerOfTwo and MsgSharesUsedNIDefaults never panic on
\* non-negative arguments (message length 0 included) and a power-of-two k.
C4_Total ==
    (fn \in {"NextAlignedPowerOfTwo", "MsgSharesUsedNIDefaults"}) => pc # "panic"

\* C5 as stated: a split called with row = cursor/k > k returns the
\* layout-overflow error, with no shares and no indexes, for any message list.
C5_Original ==
    (SplitDone /\ start \div k > k) =>
        ret.err /\ ret.rawShares = << >> /\ ret.indexes = << >>

\* C5 amended: a split called with row = cursor/k > k and a non-empty
\* message list returns the layout-overflow error, with no shares and no
\* indexes, and does not panic.
C5_OverflowOnNonEmptyList ==
    (fn = "SplitMessagesUsingNIDefaults" /\ start \div k > k /\ Len(msgs) > 0) =>
        /\ pc # "panic"
        /\ pc = "split" => (i = 1 /\ cursor = start)
        /\ pc = "done" => (ret.err /\ ret.rawShares = << >> /\ ret.indexes = << >>)

C5_Witness ==
    /\ SplitDone
    /\ start \div k = k + 1
    /\ Len(msgs) > 0
    /\ ret.err

\* C6: FitsInSquare returns true only if cursor + the packer's total
\* <= k*k (the empty list included), and for a non-empty list exactly then.
C6_FitsOnlyIfInsideSquare ==
    FitsDone =>
        LET p == MsgSharesUsedNIDefaults(start, k, msgs)
            inside == start + p.sharesUsed <= k * k
        IN  /\ ret.b => inside
            /\ Len(msgs) > 0 => (ret.b <=> inside)

\* C7 as stated: a message that cannot be placed in the rest of the current
\* row and is deferred to the start of the next row, where it fits entirely,
\* is reported with fitsWhole = true; k = 4, cursor = 3, msgLen = 2 gives
\* (4, true).
C7_Original ==
    (AlignDone /\ cursor % k # 0 /\ msgLen >= 1 /\ msgLen <= k
       /\ ret.start = EndOfRow(cursor, k)) => ret.fits

\* C7 amended: such a message is reported with fitsWhole = false together
\* with that row start; k = 4, cursor = 3, msgLen = 2 gives (4, false).
C7_DeferredReportsFalse ==
    /\ (AlignDone /\ cursor % k # 0 /\ msgLen >= 1 /\ msgLen <= k
          /\ ret.start = EndOfRow(cursor, k)) => ~ret.fits
    /\ (AlignDone /\ k = 4 /\ cursor = 3 /\ msgLen = 2) =>
          (ret.start = 4 /\ ~ret.fits)

C7_Witness ==
    /\ AlignDone
    /\ k = 4 /\ cursor = 3 /\ msgLen = 2
    /\ ret.start = 4

\* C8: whenever the split considers a message at a cursor whose row
\* cursor/k is >= k, the call returns the layout-overflow error.
C8_RowBelowKOrError ==
    [][(pc = "split" /\ i <= Len(msgs) /\ cursor \div k >= k)
          => (pc' = "done" /\ ret'.err)]_vars

\* C9: a message longer than k met at a cursor that is not a row start is
\* placed at the start of the next row, and in a packer pass every message
\* longer than k starts at a multiple of k.
C9_LongMessageStartsRow ==
    /\ (AlignDone /\ msgLen > k /\ cursor % k # 0) =>
          ret.start = EndOfRow(cursor, k)
    /\ PackDone =>
          \A n \in 1..Len(msgs) : msgs[n] > k => ret.indexes[n] % k = 0

C9_Witness ==
    /\ AlignDone
    /\ cursor % k # 0
    /\ msgLen > k
    /\ nextLowestPowerOfTwo(msgLen) >= 2 * k
    /\ roundUpBy(cursor, nextLowestPowerOfTwo(msgLen)) > EndOfRow(cursor, k)

\* C10: for msgLen >= 1 the start returned by NextAlignedPowerOfTwo is the
\* cursor at a row start and otherwise lies between the cursor and the start
\* of the next row, so the gap is below k; the cursor never decreases during
\* a split, and the packer's total is never negative.
C10_AlignBounds ==
    /\ (AlignDone /\ msgLen >= 1) =>
          /\ cursor % k = 0 => ret.start = cursor
          /\ cursor % k # 0 =>
                (cursor <= ret.start /\ ret.start <= EndOfRow(cursor, k))
          /\ ret.start - cursor < k
    /\ PackDone => ret.sharesUsed >= 0

C10_StartWithinRow == []C10_AlignBounds /\ [][cursor' >= cursor]_vars

C10_Witness ==
    /\ AlignDone
    /\ msgLen >= 1
    /\ cursor % k # 0
    /\ ret.start = cursor + k - 1
====
